---- MODULE Spec2Model ----
(***************************************************************************)
(* Model of the Cleartrip relay (src/main.py): the process-wide flight     *)
(* token cache, get_flight_token / refresh_flight_token, and the flight    *)
(* endpoints that call them.  Every request is handled by its own asyncio  *)
(* task; a task runs atomically between two awaits that suspend it.  The   *)
(* tasks are anonymous: the state holds the bag of the positions at which  *)
(* the requests in flight are suspended.                                   *)
(***************************************************************************)
EXTENDS Integers, Sequences, FiniteSets, Bags, TLC

\* ---------------------------------------------------------------- bounds
NumTasks == 2
MaxTokens == 2
MaxTicks == 2

\* ------------------------------------------------------ program constants
SAFETY_MARGIN == 300
DEFAULT_EXPIRES_IN == 3600
TOKEN_ERROR_STATUS == 500
ENDPOINT_ERROR_STATUS == 500
HTTP_OK == 200

\* Python None / a present value
None == <<>>
Some(v) == <<v>>
Val(x) == x[1]

\* ------------------------------------------------ inputs (the environment)
TickSteps == {300}
ExpiresInValues == {60, 300, 600}
RejectStatuses == {401}

\* what an awaited upstream POST /login or POST /refresh can produce:
\* a transport failure (timeout, connection error), a non-200 status, a 200
\* whose body is not JSON, or a 200 JSON body with or without idToken,
\* refreshToken and a numeric expiresIn
TransportFailures == {[kind |-> "transport"]}
Rejections == {[kind |-> "status", status |-> s] : s \in RejectStatuses}
NonJsonOk == {[kind |-> "nonjson"]}
Body(i, f, k, e) ==
    [kind |-> "json", hasId |-> i, hasRefresh |-> f, expKind |-> k,
     expiresIn |-> e]
JsonOk ==
    {Body(FALSE, TRUE, "num", e) : e \in ExpiresInValues}
    \cup {Body(TRUE, f, "num", e) : f \in BOOLEAN, e \in ExpiresInValues}
    \cup {Body(TRUE, TRUE, k, 0) : k \in {"missing", "bad"}}
AuthResponses == TransportFailures \cup Rejections \cup NonJsonOk \cup JsonOk

\* flight_token_cache: main.py 37-41;  now: datetime.now(), in seconds;
\* tasks: the bag of positions of the request tasks in flight (at most
\* NumTasks at a time);  nextTok: the next token the
\* partner issues;  held: history, how the cached idToken got there;
\* last: the reply sent to a caller by the step just taken (NoReply if the
\* step sent none)
VARIABLES flight_token_cache, now, tasks, nextTok, held, last

vars == <<flight_token_cache, now, tasks, nextTok, held, last>>

EmptyCache == [idToken |-> None, refreshToken |-> None, expiresAt |-> None]

\* the position of a task that is not handling a request; logins counts the
\* POST /login calls issued so far by the invocation in progress
IdleTask == [pc |-> "idle", op |-> "none", ctx |-> "none", logins |-> 0]

\* which response stored the cached idToken, the expiresIn it reported and
\* the instant it was received
NoInfo == [src |-> "none", ttl |-> None, at |-> 0]

NoReply == [op |-> "none", ret |-> None, via |-> "none", margin |-> "none",
            err |-> 0, out |-> 0, upstream |-> 0]

Init ==
    /\ flight_token_cache = EmptyCache
    /\ now = 0
    /\ tasks = EmptyBag
    /\ nextTok = 1
    /\ held = NoInfo
    /\ last = NoReply

\* ----------------------------------------------------------- cache states
IsEmpty(c) == c.idToken = None /\ c.refreshToken = None /\ c.expiresAt = None

\* a cache test that applies the safety margin a second time
CacheValid_MarginTwice(c, n) ==
    /\ c.idToken # None
    /\ c.expiresAt # None
    /\ n + 300 < Val(c.expiresAt)

\* main.py 53-55: the condition under which the cached token is served
CacheValid(c, n) ==
    /\ c.idToken # None
    /\ c.expiresAt # None
    /\ n < Val(c.expiresAt)

IsStale(c, n) == c.idToken # None /\ c.expiresAt # None /\ n >= Val(c.expiresAt)

TokenInfo(r, how, n) ==
    [src |-> how,
     ttl |-> IF r.expKind = "num" THEN Some(r.expiresIn) ELSE None,
     at |-> n]

\* seconds of partner-reported lifetime the token has left at instant n
Remaining(info, n) == (info.at + Val(info.ttl)) - n

MarginKept(info, n) ==
    IF info.ttl = None THEN "unknown"
    ELSE IF Remaining(info, n) > SAFETY_MARGIN THEN "yes" ELSE "no"

\* ------------------------------------------------- the callers' continuations
\* A step of a task yields the task's next position and the reply it sends
\* (NoReply while the request is still being handled):
\* [tk |-> ..., last |-> ...].

\* ------------------------------------------------ flight operations
\* main.py 299-585: the endpoints that relay one call to the flight partner
PostOperations == {"flight_search", "flight_session", "flight_preview",
                   "flight_hold", "flight_book", "flight_ancillary"}
GetOperations == {"flight_airports", "flight_fare_calendar"}
FlightOperations == PostOperations \cup GetOperations

\* the position of a flight operation that has just been called
BeginFlight(o, request) ==
    [pc |-> "idle", op |-> o, ctx |-> "none", logins |-> 0,
     request |-> request, sent |-> None]

\* what the caller of a flight operation or of the hotel relay receives: the
\* status, the content, the upstream response it is made from, and the
\* number of upstream calls made for it
RelayedReply(o, status, content, r, n) ==
    [op |-> o, out |-> status, content |-> content, from |-> r, calls |-> n]

NoResponse == [kind |-> "none"]

\* the body of an HTTPException(detail=str(e)) answer: e is what was raised
ErrorDetail(e) == [detail |-> e]

\* main.py 319-329 (and the like in every flight operation): with the token,
\* a POST operation reads the body with request.json(), which raises on a
\* body that is not JSON, and every operation then awaits the partner
SendFlight(tk, tok) ==
    IF tk.op \in PostOperations /\ tk.request.body.kind # "json"
    THEN [tk |-> IdleTask,
          last |-> RelayedReply(tk.op, ENDPOINT_ERROR_STATUS,
                                ErrorDetail("JSONDecodeError"),
                                NoResponse, 0)]
    ELSE [tk |-> [tk EXCEPT !.pc = "flight_wait",
                            !.sent = Some([bearer |-> tok,
                                           json |-> IF tk.op \in PostOperations
                                                    THEN Some(tk.request.body.value)
                                                    ELSE None])],
          last |-> NoReply]

\* The token manager hands tok back to the endpoint (main.py 263-273,
\* 285-293); c is the cache after the step.  The endpoint builds its reply
\* from the cache: expiresAt.isoformat() raises on None, which the
\* endpoint's except turns into 500.
Returned(tk, tok, how, c, m) ==
    IF tk.op \in FlightOperations THEN SendFlight(tk, tok)
    ELSE
    [tk |-> IdleTask,
     last |-> [op |-> tk.op, ret |-> Some(tok), via |-> how, margin |-> m,
               err |-> 0, upstream |-> 0,
               out |-> IF c.expiresAt = None
                       THEN ENDPOINT_ERROR_STATUS ELSE HTTP_OK]]

\* main.py 274-276, 294-296: the status an endpoint answers with when the
\* call it awaited raised HTTPException(status)
EndpointFailure(status) == ENDPOINT_ERROR_STATUS

\* get_flight_token raised HTTPException(status); up is the status the
\* partner answered the login with (0: none).  Inside the try block of
\* refresh_flight_token (line 132) the exception is caught at line 134 and
\* the handler runs; anywhere else it reaches the endpoint.
Raised(tk, status, up) ==
    IF tk.op = "flight_refresh" /\ tk.ctx = "try"
    THEN [tk |-> [tk EXCEPT !.pc = "handler"], last |-> NoReply]
    ELSE IF tk.op \in FlightOperations
    THEN [tk |-> IdleTask,
          last |-> RelayedReply(tk.op, EndpointFailure(status),
                                ErrorDetail("Token error"), NoResponse, 0)]
    ELSE [tk |-> IdleTask,
          last |-> [op |-> tk.op, ret |-> None, via |-> "none",
                    margin |-> "none", err |-> status, upstream |-> up,
                    out |-> EndpointFailure(status)]]

\* ------------------------------------------------------- get_flight_token
\* main.py 52-72: serve the cached token, or issue POST /login and suspend
get_flight_token(tk, c, n, cx, info) ==
    IF CacheValid(c, n)
    THEN Returned(tk, Val(c.idToken), "cache", c, MarginKept(info, n))
    ELSE [tk |-> [tk EXCEPT !.pc = "login_wait", !.ctx = cx,
                            !.logins = @ + 1],
          last |-> NoReply]

\* main.py 81 / 124
ExpiresIn(r) == IF r.expKind = "missing" THEN DEFAULT_EXPIRES_IN ELSE r.expiresIn

\* an expiry stored without the safety margin
ExpiresAt_NoMargin(r, n) == n + ExpiresIn(r)

ExpiresAt(r, n) == n + (ExpiresIn(r) - SAFETY_MARGIN)

\* main.py 74-85: the cache after a login response; the assignments happen
\* in source order, and an exception leaves the earlier ones in place
LoginCache(c, r, tok, n) ==
    IF r.kind # "json" \/ ~r.hasId THEN c
    ELSE IF ~r.hasRefresh THEN [c EXCEPT !.idToken = Some(tok)]
    ELSE IF r.expKind = "bad"
         THEN [c EXCEPT !.idToken = Some(tok), !.refreshToken = Some(tok)]
    ELSE [idToken |-> Some(tok), refreshToken |-> Some(tok),
          expiresAt |-> Some(ExpiresAt(r, n))]

LoginSucceeds(r) ==
    r.kind = "json" /\ r.hasId /\ r.hasRefresh /\ r.expKind # "bad"

\* main.py 86-95: the status get_flight_token raises.  The HTTPException of
\* line 88 is raised inside the try block, so line 93 catches it as well.
LoginFailureStatus(r) == TOKEN_ERROR_STATUS

\* the partner's answer carries a new bearer token
IssuesToken(r) == r.kind = "json" /\ r.hasId

\* ----------------------------------------------------------- task moves
One(pos) == SetToBag({pos})

\* a request arrives and its task runs up to position pos
Arrive(pos) == IF pos.pc = "idle" THEN tasks ELSE tasks (+) One(pos)

\* the task suspended at position old runs on to position pos
Move(old, pos) ==
    IF pos.pc = "idle" THEN tasks (-) One(old)
    ELSE (tasks (-) One(old)) (+) One(pos)

Suspended(pos) == BagIn(pos, tasks)

\* the awaited POST /login of the task at tk completes with r (main.py 64-95)
LoginResponse(tk, r) ==
    LET c2 == LoginCache(flight_token_cache, r, nextTok, now)
        up == IF r.kind = "status" THEN r.status ELSE 0
        res == IF LoginSucceeds(r)
               THEN Returned(tk, nextTok, "login", c2,
                             MarginKept(TokenInfo(r, "login", now), now))
               ELSE Raised(tk, LoginFailureStatus(r), up)
    IN  /\ Suspended(tk)
        /\ tk.pc = "login_wait"
        /\ IssuesToken(r) => nextTok <= MaxTokens
        /\ flight_token_cache' = c2
        /\ tasks' = Move(tk, res.tk)
        /\ last' = res.last
        /\ nextTok' = IF IssuesToken(r) THEN nextTok + 1 ELSE nextTok
        /\ held' = IF IssuesToken(r)
                   THEN TokenInfo(r, IF LoginSucceeds(r) THEN "login"
                                     ELSE "partial", now)
                   ELSE held
        /\ UNCHANGED now

\* ----------------------------------------------------- refresh_flight_token
\* main.py 104-117: without a refresh token do a full login, else issue
\* POST /refresh and suspend
refresh_flight_token(tk, c, n, info) ==
    IF c.refreshToken = None
    THEN get_flight_token(tk, c, n, "norefresh", info)
    ELSE [tk |-> [tk EXCEPT !.pc = "refresh_wait", !.ctx = "refresh"],
          last |-> NoReply]

\* main.py 119-128: the cache after a refresh response
RefreshCache(c, r, tok, n) ==
    IF r.kind # "json" \/ ~r.hasId THEN c
    ELSE IF r.expKind = "bad" THEN [c EXCEPT !.idToken = Some(tok)]
    ELSE [c EXCEPT !.idToken = Some(tok), !.expiresAt = Some(ExpiresAt(r, n))]

RefreshSucceeds(r) == r.kind = "json" /\ r.hasId /\ r.expKind # "bad"

\* the awaited POST /refresh of the task at tk completes with r (main.py
\* 110-136).  A non-200 status calls get_flight_token inside the try block
\* (line 132); an exception (transport failure, body not JSON, KeyError,
\* ValueError) leaves the `async with` and enters the handler of line 134.
RefreshResponse(tk, r) ==
    LET c2 == RefreshCache(flight_token_cache, r, nextTok, now)
        res == IF RefreshSucceeds(r)
                 THEN Returned(tk, nextTok, "refresh", c2,
                               MarginKept(TokenInfo(r, "refresh", now), now))
               ELSE IF r.kind = "status"
                 THEN get_flight_token(tk, c2, now, "try", held)
               ELSE [tk |-> [tk EXCEPT !.pc = "handler"], last |-> NoReply]
    IN  /\ Suspended(tk)
        /\ tk.pc = "refresh_wait"
        /\ IssuesToken(r) => nextTok <= MaxTokens
        /\ r.kind = "json" => r.hasRefresh
        /\ flight_token_cache' = c2
        /\ tasks' = Move(tk, res.tk)
        /\ last' = res.last
        /\ nextTok' = IF IssuesToken(r) THEN nextTok + 1 ELSE nextTok
        /\ held' = IF IssuesToken(r)
                   THEN TokenInfo(r, IF RefreshSucceeds(r) THEN "refresh"
                                     ELSE "partial", now)
                   ELSE held
        /\ UNCHANGED now

\* main.py 134-136: the except handler of refresh_flight_token
RefreshHandler(tk) ==
    LET res == get_flight_token(tk, flight_token_cache, now, "handler", held)
    IN  /\ Suspended(tk)
        /\ tk.pc = "handler"
        /\ tasks' = Move(tk, res.tk)
        /\ last' = res.last
        /\ UNCHANGED <<flight_token_cache, now, nextTok, held>>

\* ------------------------------------------------------------- endpoints
Begin(o) == [IdleTask EXCEPT !.op = o]

\* POST /api/flights/login (main.py 257-276)
flight_login ==
    LET res == get_flight_token(Begin("flight_login"), flight_token_cache,
                                now, "top", held)
    IN  /\ BagCardinality(tasks) < NumTasks
        /\ tasks' = Arrive(res.tk)
        /\ last' = res.last
        /\ UNCHANGED <<flight_token_cache, now, nextTok, held>>

\* POST /api/flights/refresh (main.py 279-296)
flight_refresh ==
    LET res == refresh_flight_token(Begin("flight_refresh"),
                                    flight_token_cache, now, held)
    IN  /\ BagCardinality(tasks) < NumTasks
        /\ tasks' = Arrive(res.tk)
        /\ last' = res.last
        /\ UNCHANGED <<flight_token_cache, now, nextTok, held>>

\* datetime.now() advances
Tick(d) ==
    /\ now + d <= MaxTicks * d
    /\ now' = now + d
    /\ last' = NoReply
    /\ UNCHANGED <<flight_token_cache, tasks, nextTok, held>>

Next ==
    \/ flight_login
    \/ flight_refresh
    \/ \E tk \in BagToSet(tasks), r \in AuthResponses : LoginResponse(tk, r)
    \/ \E tk \in BagToSet(tasks), r \in AuthResponses : RefreshResponse(tk, r)
    \/ \E tk \in BagToSet(tasks) : RefreshHandler(tk)
    \/ \E d \in TickSteps : Tick(d)

Spec == Init /\ [][Next]_vars

TypeOK ==
    /\ nextTok \in 1..(MaxTokens + 1)
    /\ now >= 0
    /\ IsABag(tasks)
    /\ BagCardinality(tasks) <= NumTasks
    /\ \A tk \in BagToSet(tasks) :
          tk.pc \in {"login_wait", "refresh_wait", "handler"}

\* ===================================================================
\* The hotel relay (main.py 909-997)
\* ===================================================================

\* ---------------------------------------------------------------- bounds
MaxPieces == 3
MaxParams == 2

\* ------------------------------------------------------ program constants
TEXT_LIMIT == 2000
ERROR_FLOOR == 400
GATEWAY_TIMEOUT == 504
BAD_GATEWAY == 502
INTERNAL_ERROR == 500

\* A str is the sequence of its characters.
RECURSIVE Flatten(_)
Flatten(ss) == IF ss = <<>> THEN <<>> ELSE Head(ss) \o Flatten(Tail(ss))

UPPERCASE ==
    <<"A", "B", "C", "D", "E", "F", "G", "H", "I", "J", "K", "L", "M", "N",
      "O", "P", "Q", "R", "S", "T", "U", "V", "W", "X", "Y", "Z">>
LOWERCASE ==
    <<"a", "b", "c", "d", "e", "f", "g", "h", "i", "j", "k", "l", "m", "n",
      "o", "p", "q", "r", "s", "t", "u", "v", "w", "x", "y", "z">>

\* str.lower() of one character
ToLower(ch) ==
    IF \E i \in 1..Len(UPPERCASE) : UPPERCASE[i] = ch
    THEN LOWERCASE[CHOOSE i \in 1..Len(UPPERCASE) : UPPERCASE[i] = ch]
    ELSE ch

Lower_Identity(str) == str

\* main.py 919
Lower(str) == [i \in 1..Len(str) |-> ToLower(str[i])]

\* Python `sub in str`
Contains(str, sub) ==
    \E i \in 0..(Len(str) - Len(sub)) : SubSeq(str, i + 1, i + Len(sub)) = sub

\* the literals of get_required_headers
LOCATION_HOTELS == 
    <<"l", "o", "c", "a", "t", "i", "o", "n", "/", "h", "o", "t", "e", "l", "s">>
SEARCH == 
    <<"s", "e", "a", "r", "c", "h">>
LOCATION == 
    <<"l", "o", "c", "a", "t", "i", "o", "n">>
SEARCH_BY_LOCATION == 
    <<"s", "e", "a", "r", "c", "h", "-", "b", "y", "-", "l", "o", "c", "a", "t", "i", "o", "n">>
SLASH_DETAIL == 
    <<"/", "d", "e", "t", "a", "i", "l">>
PROVISIONAL_BOOK == 
    <<"p", "r", "o", "v", "i", "s", "i", "o", "n", "a", "l", "-", "b", "o", "o", "k">>
SLASH_BOOK == 
    <<"/", "b", "o", "o", "k">>
PROVISIONAL == 
    <<"p", "r", "o", "v", "i", "s", "i", "o", "n", "a", "l">>

\* main.py 925-931 without the predicates of lines 927 and 929
needs_lineage_Excluding(path_lower) ==
    \/ Contains(path_lower, SEARCH) /\ ~Contains(path_lower, LOCATION)
    \/ Contains(path_lower, SLASH_DETAIL)
    \/ Contains(path_lower, SLASH_BOOK) /\ ~Contains(path_lower, PROVISIONAL)

\* main.py 925-931
needs_lineage(path_lower) ==
    \/ Contains(path_lower, SEARCH) /\ ~Contains(path_lower, LOCATION)
    \/ Contains(path_lower, SEARCH_BY_LOCATION)
    \/ Contains(path_lower, SLASH_DETAIL)
    \/ Contains(path_lower, PROVISIONAL_BOOK)
    \/ Contains(path_lower, SLASH_BOOK) /\ ~Contains(path_lower, PROVISIONAL)

\* main.py 921
needs_meta_data(path_lower) == Contains(path_lower, LOCATION_HOTELS)

\* main.py 911-937 sending Content-Type only with a method that has a body
get_required_headers_ByMethod(path, method, u1, u2) ==
    LET path_lower == Lower(path)
        ids == ("x-ct-api-key" :> "CLEARTRIP_API_KEY")
               @@ ("x-request-id" :> u1)
        headers == IF method \in {"POST", "PUT"}
                   THEN ("Content-Type" :> "application/json") @@ ids
                   ELSE ids
        meta == IF needs_meta_data(path_lower)
                THEN ("x-meta-data" :> "{\"locationVersion\":\"V2\"}")
                     @@ headers
                ELSE headers
    IN  IF needs_lineage(path_lower)
        THEN ("x-lineage-id" :> u2) @@ meta
        ELSE meta

\* main.py 911-937; u1, u2 are the values uuid.uuid4() draws.  The result
\* maps header names to values.
get_required_headers(path, method, u1, u2) ==
    LET path_lower == Lower(path)
        headers == ("Content-Type" :> "application/json")
                   @@ ("x-ct-api-key" :> "CLEARTRIP_API_KEY")
                   @@ ("x-request-id" :> u1)
        meta == IF needs_meta_data(path_lower)
                THEN ("x-meta-data" :> "{\"locationVersion\":\"V2\"}")
                     @@ headers
                ELSE headers
    IN  IF needs_lineage(path_lower)
        THEN ("x-lineage-id" :> u2) @@ meta
        ELSE meta

\* ------------------------------------------------ inputs (the environment)
Methods == {"GET", "POST", "PUT", "DELETE"}
\* the values two successive uuid.uuid4() calls draw
UuidDraws == {<<"u1", "u2">>, <<"u2", "u3">>}

\* the pieces inbound paths are built from
Pieces == {<<"/">>,
           <<"s", "e", "a", "r", "c", "h">>,
           <<"-", "b", "y", "-">>,
           <<"l", "o", "c", "a", "t", "i", "o", "n">>,
           <<"h", "o", "t", "e", "l", "s">>,
           <<"d", "e", "t", "a", "i", "l">>,
           <<"b", "o", "o", "k">>,
           <<"p", "r", "o", "v", "i", "s", "i", "o", "n", "a", "l", "-">>}

RECURSIVE SeqsUpTo(_, _)
SeqsUpTo(S, n) ==
    IF n = 0 THEN {<<>>}
    ELSE LET shorter == SeqsUpTo(S, n - 1)
         IN  shorter \cup {Append(q, x) : q \in shorter, x \in S}

\* the {path:path} parameter of the route /api/cleartrip/{path:path}
\* paths the pieces do not give: a plural, and upper-case letters
NamedPaths == {<<"/", "l", "o", "c", "a", "t", "i", "o", "n", "s">>,
               <<"/", "L", "o", "c", "a", "t", "i", "o", "n", "/", "H", "o", "t", "e", "l", "s">>,
               <<"v", "4", "/", "L", "O", "C", "A", "T", "I", "O", "N", "/", "H", "O", "T", "E", "L", "S", "/", "l", "i", "s", "t">>,
               <<"/", "D", "e", "t", "a", "i", "l">>}

Paths == {Flatten(ps) : ps \in SeqsUpTo(Pieces, MaxPieces)} \cup NamedPaths

\* request.query_params: the (name, value) pairs in the order of the URL
ParamNames == {"a", "b"}
ParamValues == {"1", "2"}
Queries == SeqsUpTo(ParamNames \X ParamValues, MaxParams)

\* the inbound body: none, a JSON document, or bytes that are not JSON
InboundBodies == {[kind |-> "empty"], [kind |-> "json", value |-> "doc"],
                  [kind |-> "garbage"]}

\* a text is a sequence of runs <<character, count>>
TextLen(runs) ==
    LET RECURSIVE Sum(_)
        Sum(rs) == IF rs = <<>> THEN 0 ELSE Head(rs)[2] + Sum(Tail(rs))
    IN  Sum(runs)

\* Python text[:n]
RECURSIVE Prefix(_, _)
Prefix(runs, n) ==
    IF runs = <<>> \/ n <= 0 THEN <<>>
    ELSE IF Head(runs)[2] <= n
         THEN <<Head(runs)>> \o Prefix(Tail(runs), n - Head(runs)[2])
         ELSE <<<<Head(runs)[1], n>>>>

Texts == {<<<<"x", 7>>>>, <<<<"x", 2000>>>>, <<<<"x", 1500>>, <<"y", 501>>>>}

UpstreamStatuses == {200, 399, 400, 404}

\* the classes of the exception an awaited httpx call raises, from the most
\* derived one up: a timeout, another transport error, or something that is
\* not an httpx.HTTPError at all (httpx.InvalidURL, a RuntimeError...)
TIMEOUT_EXC == <<"TimeoutException", "TransportError", "HTTPError", "Exception">>
CONNECT_EXC == <<"ConnectError", "TransportError", "HTTPError", "Exception">>
OTHER_EXC == <<"InvalidURL", "Exception">>
Exceptions == {TIMEOUT_EXC, CONNECT_EXC, OTHER_EXC}

\* what the awaited upstream call of the relay can produce
HotelResponses ==
    {[kind |-> "raise", exc |-> e] : e \in Exceptions}
    \cup {[kind |-> "json", status |-> st, value |-> "data"] :
             st \in UpstreamStatuses}
    \cup {[kind |-> "text", status |-> st, text |-> tx] :
             st \in UpstreamStatuses, tx \in Texts}

\* the requests the relay is driven with: every path with every method, and
\* every query and body with every method on one path
PathRequests ==
    {[method |-> m, path |-> p, query |-> <<>>, body |-> [kind |-> "empty"]] :
        m \in Methods, p \in Paths}
QueryRequests ==
    {[method |-> m, path |-> SEARCH, query |-> q, body |-> b] :
        m \in Methods, q \in Queries, b \in InboundBodies}
HotelRequests == PathRequests \cup QueryRequests

\* ---------------------------------------------------------------- relay
\* dict(request.query_params): one entry per name, at the position of the
\* name's first occurrence, holding the value of its last occurrence
RECURSIVE Names(_)
Names(query) ==
    IF query = <<>> THEN <<>>
    ELSE LET rest == Names(SubSeq(query, 1, Len(query) - 1))
             name == query[Len(query)][1]
         IN  IF \E i \in 1..Len(rest) : rest[i] = name THEN rest
             ELSE Append(rest, name)

LastValue(query, name) ==
    LET i == CHOOSE i \in 1..Len(query) :
                 /\ query[i][1] = name
                 /\ \A j \in (i + 1)..Len(query) : query[j][1] # name
    IN  query[i][2]

QueryDict(query) ==
    LET names == Names(query)
    IN  [i \in 1..Len(names) |-> <<names[i], LastValue(query, names[i])>>]

\* main.py 944-949: the body is read for POST and PUT only, and a body
\* request.json() cannot parse leaves None
InboundJson(request) ==
    IF request.method \in {"POST", "PUT"} /\ request.body.kind = "json"
    THEN Some(request.body.value)
    ELSE None

\* main.py 951-967: the outbound request; url is relative to
\* CLEARTRIP_BASE_URL
Outbound(request, u1, u2) ==
    [method |-> request.method,
     url |-> <<"/">> \o request.path,
     json |-> InboundJson(request),
     params |-> QueryDict(request.query),
     headers |-> get_required_headers(request.path, request.method, u1, u2),
     timeout |-> 60]

\* the position of a relay call awaiting client.request
RelayCall(request, u1, u2) ==
    [pc |-> "relay_wait", op |-> "relay", request |-> request,
     sent |-> Outbound(request, u1, u2), calls |-> 1]

\* main.py 941-967, up to the await of client.request; call is the
\* position the handler reaches for its request
relay(call) ==
    /\ BagCardinality(tasks) < NumTasks
    /\ tasks' = tasks (+) One(call)
    /\ last' = NoReply
    /\ UNCHANGED <<flight_token_cache, now, nextTok, held>>

\* main.py 987-997 with the first two clauses exchanged
RELAY_HANDLERS_Reordered == <<<<"HTTPError", BAD_GATEWAY>>,
                              <<"TimeoutException", GATEWAY_TIMEOUT>>,
                              <<"Exception", INTERNAL_ERROR>>>>

\* main.py 987-997: the except clauses, in source order
RELAY_HANDLERS == <<<<"TimeoutException", GATEWAY_TIMEOUT>>,
                    <<"HTTPError", BAD_GATEWAY>>,
                    <<"Exception", INTERNAL_ERROR>>>>

IsInstance(exc, class) == \E i \in 1..Len(exc) : exc[i] = class

\* the status of the first except clause that matches
Handled(exc, clauses) ==
    LET i == CHOOSE i \in 1..Len(clauses) :
                 /\ IsInstance(exc, clauses[i][1])
                 /\ \A j \in 1..(i - 1) : ~IsInstance(exc, clauses[j][1])
    IN  clauses[i][2]

\* main.py 984 with > for >=
NonJsonStatus_Above(status) == IF status > ERROR_FLOOR THEN status ELSE INTERNAL_ERROR

\* main.py 984
NonJsonStatus(status) == IF status >= ERROR_FLOOR THEN status ELSE INTERNAL_ERROR

\* main.py 978-985
NonJsonEnvelope(r) ==
    [error |-> "Non-JSON response from Cleartrip",
     status_code |-> r.status,
     response_text |-> Prefix(r.text, TEXT_LIMIT)]

\* main.py 971-997: what the caller of the relay receives for r
RelayReply(tk, r) ==
    RelayedReply("relay",
                 CASE r.kind = "json" -> r.status
                   [] r.kind = "text" -> NonJsonStatus(r.status)
                   [] r.kind = "raise" -> Handled(r.exc, RELAY_HANDLERS),
                 CASE r.kind = "json" -> r.value
                   [] r.kind = "text" -> NonJsonEnvelope(r)
                   [] r.kind = "raise" -> ErrorDetail(r.exc[1]),
                 r, tk.calls)

\* the same, dropping the cached token when the upstream call raised
HotelResponse_Invalidating(tk, r) ==
    /\ Suspended(tk)
    /\ tk.pc = "relay_wait"
    /\ tasks' = tasks (-) One(tk)
    /\ last' = RelayReply(tk, r)
    /\ flight_token_cache' = IF r.kind = "raise" THEN EmptyCache
                             ELSE flight_token_cache
    /\ UNCHANGED <<now, nextTok, held>>

\* the awaited client.request of the relay completes with r
HotelResponse(tk, r) ==
    /\ Suspended(tk)
    /\ tk.pc = "relay_wait"
    /\ tasks' = tasks (-) One(tk)
    /\ last' = RelayReply(tk, r)
    /\ UNCHANGED <<flight_token_cache, now, nextTok, held>>

\* every hotel request with what the relay sends for it
HotelCalls ==
    {RelayCall(request, "u1", "u2") : request \in PathRequests}
    \cup {RelayCall(request, u[1], u[2]) :
             request \in QueryRequests, u \in UuidDraws}

\* one hotel request at a time
NextHotel ==
    \/ /\ tasks = EmptyBag
       /\ \E call \in HotelCalls : relay(call)
    \/ \E tk \in BagToSet(tasks), r \in HotelResponses : HotelResponse(tk, r)

SpecHotel == Init /\ [][NextHotel]_vars

\* ===================================================================
\* The flight operations (main.py 299-585)
\* ===================================================================

\* the inbound request of a flight operation: a POST carries a body
FlightRequests(o) ==
    IF o \in PostOperations THEN {[body |-> b] : b \in InboundBodies}
    ELSE {[body |-> [kind |-> "empty"]]}

\* what the awaited call to the flight partner can produce
FlightResponses ==
    {[kind |-> "raise", exc |-> e] : e \in Exceptions}
    \cup {[kind |-> "json", status |-> st, value |-> "data"] :
             st \in UpstreamStatuses}
    \cup {[kind |-> "text", status |-> st, text |-> <<<<"x", 7>>>>] :
             st \in UpstreamStatuses}

\* the answers to POST /login the flight operations are checked with
FlightAuthResponses == TransportFailures \cup {Body(TRUE, TRUE, "num", 600)}

\* main.py 317-318 (and the like): a flight operation is called and asks for
\* the token
flight_operation(o, request) ==
    LET res == get_flight_token(BeginFlight(o, request), flight_token_cache,
                                now, "top", held)
    IN  /\ BagCardinality(tasks) < NumTasks
        /\ tasks' = Arrive(res.tk)
        /\ last' = res.last
        /\ UNCHANGED <<flight_token_cache, now, nextTok, held>>

\* main.py 331-338 (and the like): response.json() raises on a body that is
\* not JSON, and `except Exception` answers every exception with 500
FlightOutcome(tk, r) ==
    IF r.kind = "json"
    THEN RelayedReply(tk.op, r.status, r.value, r, 1)
    ELSE RelayedReply(tk.op, ENDPOINT_ERROR_STATUS,
                      ErrorDetail(IF r.kind = "raise" THEN r.exc[1]
                                  ELSE "JSONDecodeError"), r, 1)

\* the awaited call of a flight operation completes with r
FlightResponse(tk, r) ==
    /\ Suspended(tk)
    /\ tk.pc = "flight_wait"
    /\ tasks' = tasks (-) One(tk)
    /\ last' = FlightOutcome(tk, r)
    /\ UNCHANGED <<flight_token_cache, now, nextTok, held>>

\* one flight operation at a time
NextFlight ==
    \/ /\ tasks = EmptyBag
       /\ \E o \in FlightOperations :
              \E request \in FlightRequests(o) : flight_operation(o, request)
    \/ \E tk \in BagToSet(tasks), r \in FlightAuthResponses : LoginResponse(tk, r)
    \/ \E tk \in BagToSet(tasks), r \in FlightResponses : FlightResponse(tk, r)
    \/ \E d \in TickSteps : Tick(d)

SpecFlight == Init /\ [][NextFlight]_vars

\* ===================================================================
\* The endpoints that do not relay (main.py 220-230, 590-638, 1000-1021)
\* ===================================================================

\* what /health and /api/status report of the cache
CacheReport(c) ==
    [token_cached |-> c.idToken # None, token_expires_at |-> c.expiresAt]

\* GET /health (main.py 220-230): no await, the reply is built at once
health ==
    /\ last' = RelayedReply("health", HTTP_OK,
                            CacheReport(flight_token_cache), NoResponse, 0)
    /\ UNCHANGED <<flight_token_cache, now, tasks, nextTok, held>>

\* GET /api/status (main.py 1000-1021)
detailed_status ==
    /\ last' = RelayedReply("detailed_status", HTTP_OK,
                            CacheReport(flight_token_cache), NoResponse, 0)
    /\ UNCHANGED <<flight_token_cache, now, tasks, nextTok, held>>

\* GET /api/locations/autocomplete (main.py 590-638): a query shorter than
\* two characters is refused, a database error is reported in the body; the
\* database calls block, so the handler is one step
autocomplete_locations(q, db) ==
    /\ last' = RelayedReply("autocomplete_locations", HTTP_OK,
                            [status |-> IF Len(q) < 2 \/ db = "error"
                                        THEN "error" ELSE "success"],
                            NoResponse, 0)
    /\ UNCHANGED <<flight_token_cache, now, tasks, nextTok, held>>

\* the inputs the whole application is driven with
AppAuthResponses == FlightAuthResponses \cup Rejections
AppHotelRequests ==
    {[method |-> "GET", path |-> SEARCH, query |-> <<>>,
      body |-> [kind |-> "empty"]],
     [method |-> "POST", path |-> PROVISIONAL_BOOK, query |-> <<>>,
      body |-> [kind |-> "json", value |-> "doc"]]}
AppHotelResponses ==
    {[kind |-> "raise", exc |-> TIMEOUT_EXC],
     [kind |-> "json", status |-> 200, value |-> "data"]}
AppQueries == {<<"d">>, <<"d", "e", "l">>}

\* token endpoints, hotel relay and local endpoints together
NextApp ==
    \/ flight_login
    \/ flight_refresh
    \/ \E tk \in BagToSet(tasks), r \in AppAuthResponses : LoginResponse(tk, r)
    \/ \E tk \in BagToSet(tasks), r \in AppAuthResponses : RefreshResponse(tk, r)
    \/ \E tk \in BagToSet(tasks) : RefreshHandler(tk)
    \/ \E d \in TickSteps : Tick(d)
    \/ \E request \in AppHotelRequests : relay(RelayCall(request, "u1", "u2"))
    \/ \E tk \in BagToSet(tasks), r \in AppHotelResponses : HotelResponse(tk, r)
    \/ health
    \/ detailed_status
    \/ \E q \in AppQueries, db \in {"rows", "error"} : autocomplete_locations(q, db)

SpecApp == Init /\ [][NextApp]_vars

\* ===================================================================
\* GET /api/locations/{location_id} (main.py 693-745)
\* ===================================================================

\* ---------------------------------------------------------------- bounds
MaxRows == 3
MaxLookups == 5

\* the locations table: the rows have the ids 1..MaxRows, and parent_id is
\* NULL (0), the id of a row, or an id no row has (MaxRows + 1)
NoParent == 0
RowIds == 1..MaxRows
Tables == [RowIds -> {NoParent} \cup RowIds \cup {MaxRows + 1}]
LocationIds == RowIds \cup {MaxRows + 1}

\* main.py 696-717: the row is fetched; without a row, or when the database
\* raises, the handler answers at once, else the ancestor walk starts
get_location_by_id(table, location_id, db) ==
    /\ BagCardinality(tasks) < NumTasks
    /\ IF db = "down"
       THEN /\ last' = RelayedReply("get_location_by_id", HTTP_OK,
                                    [status |-> "error", message |-> "db"],
                                    NoResponse, 0)
            /\ tasks' = tasks
       ELSE IF location_id \notin DOMAIN table
       THEN /\ last' = RelayedReply("get_location_by_id", HTTP_OK,
                                    [status |-> "error", message |-> "not found"],
                                    NoResponse, 0)
            /\ tasks' = tasks
       ELSE /\ last' = NoReply
            /\ tasks' = tasks (+) One([pc |-> "walk", op |-> "get_location_by_id",
                                       table |-> table,
                                       location |-> location_id,
                                       parent_id |-> table[location_id],
                                       hierarchy |-> <<>>])
    /\ UNCHANGED <<flight_token_cache, now, nextTok, held>>

\* main.py 719-737: one test of `while parent_id:` with the body it guards;
\* the walk ends when parent_id is NULL or names no row.  The handler has no
\* await, the steps are those of one uninterrupted call.
AncestorLookup(tk) ==
    /\ Suspended(tk)
    /\ tk.pc = "walk"
    /\ Len(tk.hierarchy) < MaxLookups
    /\ IF tk.parent_id # NoParent /\ tk.parent_id \in DOMAIN tk.table
       THEN /\ tasks' = Move(tk, [tk EXCEPT
                                     !.hierarchy = Append(@, tk.parent_id),
                                     !.parent_id = tk.table[tk.parent_id]])
            /\ last' = NoReply
       ELSE /\ tasks' = tasks (-) One(tk)
            /\ last' = RelayedReply("get_location_by_id", HTTP_OK,
                                    [status |-> "success",
                                     location |-> tk.location,
                                     hierarchy |-> tk.hierarchy],
                                    NoResponse, 0)
    /\ UNCHANGED <<flight_token_cache, now, nextTok, held>>

\* one lookup of a location at a time
NextLocation ==
    \/ /\ tasks = EmptyBag
       /\ \E table \in Tables, location_id \in LocationIds, db \in {"up", "down"} :
              get_location_by_id(table, location_id, db)
    \/ \E tk \in BagToSet(tasks) : AncestorLookup(tk)

SpecLocation == Init /\ [][NextLocation]_vars

\* ===================================================================
\* Properties
\* ===================================================================

\* the number of tasks in flight whose position satisfies P
InFlight(P(_)) ==
    BagCardinality([tk \in {x \in BagToSet(tasks) : P(x)} |-> tasks[tk]])

AwaitsLogin(tk) == tk.pc = "login_wait"
AwaitsRefresh(tk) == tk.pc = "refresh_wait"

\* a task calls get_flight_token in this step: from flight_login (263), from
\* refresh_flight_token without a refresh token (106), after a rejected
\* refresh (132) or from the except handler (136)
CallsGetToken ==
    \/ flight_login
    \/ flight_refresh /\ flight_token_cache.refreshToken = None
    \/ \E tk \in BagToSet(tasks), r \in Rejections : RefreshResponse(tk, r)
    \/ \E tk \in BagToSet(tasks) : RefreshHandler(tk)

\* C1: single-flight login.  While the cache is Empty, concurrent callers of
\* get_flight_token share one upstream POST /login: there are never two
\* logins in flight at once.
C1_SingleFlightLogin ==
    IsEmpty(flight_token_cache) => InFlight(AwaitsLogin) <= 1

\* C2: get_flight_token called on a Stale cache that holds a refresh token
\* issues a refresh call (not a login).
C2_StaleTokenIsRefreshed ==
    [][(/\ flight_login
        /\ IsStale(flight_token_cache, now)
        /\ flight_token_cache.refreshToken # None)
       => (/\ InFlight(AwaitsRefresh)' = InFlight(AwaitsRefresh) + 1
           /\ InFlight(AwaitsLogin)' = InFlight(AwaitsLogin))]_vars

\* C3: whenever the refresh call of refresh_flight_token fails, a full login
\* call is made, in every cache state with a refresh token (Valid included):
\* an invocation that sent a refresh and has not logged in only replies after
\* a successful refresh.
C3_FailedRefreshLogsIn ==
    [][\A tk \in BagToSet(tasks) :
        (/\ tk.logins = 0
         /\ \/ \E r \in AuthResponses : RefreshResponse(tk, r)
            \/ RefreshHandler(tk)
         /\ last' # NoReply)
        => last'.via = "refresh"]_vars

\* C4: no retries.  One invocation of get_flight_token or
\* refresh_flight_token issues at most one upstream login call.
C4_AtMostOneLogin ==
    \A tk \in BagToSet(tasks) : tk.logins <= 1

\* C5: when the partner rejects the login with status s, the failure raised
\* by get_flight_token carries s, and the endpoint answers with s.
C5_UpstreamStatusSurfaced ==
    last.upstream # 0 => (last.err = last.upstream /\ last.out = last.upstream)

\* C6: on a Valid cache (idToken present, now strictly before expiresAt)
\* get_flight_token returns the cached idToken, issues no upstream call and
\* leaves the three cache fields unchanged.
C6_ValidCacheIsServed ==
    [][(/\ flight_token_cache.idToken # None
        /\ flight_token_cache.expiresAt # None
        /\ now < Val(flight_token_cache.expiresAt)
        /\ CallsGetToken)
       => (/\ last'.ret = flight_token_cache.idToken
           /\ last'.via = "cache"
           /\ last'.err = 0
           /\ InFlight(AwaitsLogin)' = InFlight(AwaitsLogin)
           /\ InFlight(AwaitsRefresh)' <= InFlight(AwaitsRefresh)
           /\ flight_token_cache' = flight_token_cache
           /\ nextTok' = nextTok)]_vars

C6_Witness ==
    /\ last.op = "flight_login"
    /\ last.via = "cache"
    /\ last.ret = flight_token_cache.idToken
    /\ CacheValid(flight_token_cache, now)

\* C7: safety margin.  Every token get_flight_token returns, from the cache
\* or from a login, has more than 300 seconds of reported lifetime left when
\* it is returned.
C7_ReturnedTokenHasMargin ==
    (last.ret # None /\ last.via \in {"cache", "login"}) => last.margin # "no"

\* the cached idToken was stored by a successful login reporting expiresIn 60
ShortLivedLogin == held.src = "login" /\ held.ttl = Some(60)

\* C8: a token from a login that reported expiresIn = 60 is stored with an
\* expiry already in the past, and a get_flight_token call made while it is
\* the cached token issues an upstream login instead of serving it.
C8_ShortLivedTokenNeverServed ==
    [][ShortLivedLogin =>
        (/\ flight_token_cache.expiresAt # None
         /\ Val(flight_token_cache.expiresAt) < now
         /\ CallsGetToken =>
              (/\ InFlight(AwaitsLogin)' = InFlight(AwaitsLogin) + 1
               /\ last' = NoReply))]_vars

C8_Witness ==
    /\ ShortLivedLogin
    /\ now > held.at
    /\ InFlight(AwaitsLogin) = NumTasks

\* C9: a login attempted from the Empty state that fails leaves the cache
\* Empty, and an error is surfaced.
C9_FailedLoginLeavesEmpty ==
    [][(/\ IsEmpty(flight_token_cache)
        /\ \E tk \in BagToSet(tasks), r \in AuthResponses : LoginResponse(tk, r)
        /\ last'.err # 0)
       => IsEmpty(flight_token_cache')]_vars

\* C10: Stale cache, the refresh fails and the fallback login fails too: the
\* cache ends Empty, the stale token is not retained.
C10_FailedFallbackEmptiesCache ==
    [][(/\ IsStale(flight_token_cache, now)
        /\ \E tk \in BagToSet(tasks), r \in AuthResponses :
              /\ tk.op = "flight_refresh"
              /\ tk.ctx \in {"try", "handler"}
              /\ LoginResponse(tk, r)
        /\ last'.err # 0)
       => flight_token_cache'.idToken = None]_vars


\* ===================================================================
\* Properties of the hotel relay
\* ===================================================================

\* the relay calls awaiting the upstream
RelayCalls == {tk \in BagToSet(tasks) : tk.op = "relay"}

SameLetter(a, b) ==
    a = b \/ \E i \in 1..Len(UPPERCASE) : {a, b} = {UPPERCASE[i], LOWERCASE[i]}

\* word occurs in path, letter case ignored
HasWord(path, word) ==
    \E i \in 1..(Len(path) - Len(word) + 1) :
        \A j \in 1..Len(word) : SameLetter(path[i + j - 1], word[j])

HasLineage(tk) == "x-lineage-id" \in DOMAIN tk.sent.headers
HasMetaData(tk) == "x-meta-data" \in DOMAIN tk.sent.headers

RECURSIVE CharAt(_, _)
CharAt(runs, i) ==
    IF i <= Head(runs)[2] THEN Head(runs)[1]
    ELSE CharAt(Tail(runs), i - Head(runs)[2])

\* short is the first n characters of text, or all of text if it has fewer
IsTruncation(short, text, n) ==
    /\ TextLen(short) = IF TextLen(text) <= n THEN TextLen(text) ELSE n
    /\ \A i \in 1..TextLen(short) : CharAt(short, i) = CharAt(text, i)

C15_LineagePresent ==
    \A tk \in RelayCalls :
        LET path == tk.request.path
        IN  /\ \/ HasWord(path, SEARCH)
               \/ HasWord(path, Tail(SLASH_DETAIL))
               \/ HasWord(path, Tail(SLASH_BOOK))
            /\ ~HasWord(path, PROVISIONAL_BOOK)
            /\ ~(HasWord(path, SEARCH) /\ HasWord(path, LOCATION))
            => HasLineage(tk)

C17_MetaDataRule ==
    \A tk \in RelayCalls :
        /\ HasMetaData(tk) <=> HasWord(tk.request.path, LOCATION_HOTELS)
        /\ HasMetaData(tk) =>
               tk.sent.headers["x-meta-data"] = "{\"locationVersion\":\"V2\"}"

C17_Witness ==
    \E tk \in RelayCalls :
        /\ \E i \in 1..Len(tk.request.path) :
               tk.request.path[i] # ToLower(tk.request.path[i])
        /\ HasMetaData(tk)

\* C18: a relay call whose upstream call raises answers 504 for a timeout,
\* 502 for any other transport error and 500 for any other exception, after
\* a single upstream call.
C18_FailureMapping ==
    last.op = "relay" /\ last.from.kind = "raise" =>
        LET exc == last.from.exc
        IN  /\ last.calls = 1
            /\ last.out = IF IsInstance(exc, "TimeoutException") THEN 504
                          ELSE IF IsInstance(exc, "HTTPError") THEN 502
                          ELSE 500

C18_Witness ==
    /\ last.op = "relay"
    /\ last.from.kind = "raise"
    /\ IsInstance(last.from.exc, "TimeoutException")
    /\ IsInstance(last.from.exc, "HTTPError")
    /\ last.out = 504

\* C20: the relay sends upstream the (name, value) pairs of the inbound
\* query, all of them and in the same order.
C20_QueryForwardedVerbatim ==
    \A tk \in RelayCalls : tk.sent.params = tk.request.query


\* ===================================================================
\* Properties of the flight operations
\* ===================================================================

\* C11: a relay call, of the hotel relay or of a flight operation, whose
\* upstream call times out answers 504.
C11_TimeoutIs504 ==
    /\ last.op \in FlightOperations \cup {"relay"}
    /\ last.from.kind = "raise"
    /\ IsInstance(last.from.exc, "TimeoutException")
    => last.out = 504

\* C13: a flight operation whose upstream response has a body that is not
\* JSON answers with the upstream status if it is >= 400 and with 500
\* otherwise, in an envelope that holds the upstream status.
C13_FlightNonJsonMapping ==
    last.op \in FlightOperations /\ last.from.kind = "text" =>
        /\ last.out = (IF last.from.status >= 400 THEN last.from.status ELSE 500)
        /\ "status_code" \in DOMAIN last.content
        /\ last.content.status_code = last.from.status

\* C14: an inbound body that is not JSON is sent on as no body by the hotel
\* relay (POST, PUT), and never makes a flight POST operation fail.
C14_UnparsableBodyIsNoBody ==
    /\ \A tk \in RelayCalls :
           tk.request.method \in {"POST", "PUT"} /\ tk.request.body.kind # "json"
           => tk.sent.json = None
    /\ last.op \in PostOperations /\ last.from.kind = "none"
       => last.content.detail # "JSONDecodeError"


\* ===================================================================
\* Frame of the token cache
\* ===================================================================

LocalEndpoints == {"health", "detailed_status", "autocomplete_locations"}

\* C19: only a completed login or refresh call changes the cache; a step
\* of the hotel relay, /health, /api/status or a catalog lookup leaves its
\* three fields as they are, and /health and /api/status start no upstream
\* call.
C19_CacheFrame ==
    [][/\ flight_token_cache' # flight_token_cache =>
             \/ \E tk \in BagToSet(tasks), r \in AuthResponses :
                    LoginResponse(tk, r)
             \/ \E tk \in BagToSet(tasks), r \in AuthResponses :
                    RefreshResponse(tk, r)
       /\ \/ last'.op \in LocalEndpoints \cup {"relay"}
          \/ RelayCalls' # RelayCalls
          => flight_token_cache' = flight_token_cache
       /\ last'.op \in {"health", "detailed_status"} => tasks' = tasks]_vars

C19_Witness ==
    /\ last.op \in {"health", "detailed_status"}
    /\ last.content.token_cached
    /\ tasks # EmptyBag


\* ===================================================================
\* Properties of get_required_headers
\* ===================================================================

\* the values uuid.uuid4() can give as x-request-id
RequestIds == {u[1] : u \in UuidDraws}

\* C21: whatever the path and the method, the headers the relay sends hold
\* Content-Type and an x-request-id drawn from uuid4 for this call, and the
\* names of the headers are those obtained for the lower-cased path with any
\* method.
C21_BaseHeaders ==
    \A tk \in RelayCalls :
        LET headers == tk.sent.headers
        IN  /\ "Content-Type" \in DOMAIN headers
            /\ headers["Content-Type"] = "application/json"
            /\ "x-request-id" \in DOMAIN headers
            /\ headers["x-request-id"] \in RequestIds
            /\ HasLineage(tk) =>
                   <<headers["x-request-id"], headers["x-lineage-id"]>> \in UuidDraws
            /\ \A m \in Methods :
                   DOMAIN get_required_headers(Lower(tk.request.path), m, "u1", "u2")
                       = DOMAIN headers

C21_Witness ==
    \E tk \in RelayCalls :
        /\ tk.request.method = "DELETE"
        /\ tk.request.path # Lower(tk.request.path)
        /\ HasMetaData(tk)
        /\ tk.sent.headers["x-request-id"] = "u1"


\* ===================================================================
\* Properties of the cache fields
\* ===================================================================

\* C22: in every state idToken is None exactly when expiresAt is None, and
\* when both are set expiresAt is the one computed from the response that
\* supplied the stored idToken (held describes that response).
C22_CacheConsistent ==
    LET c == flight_token_cache
    IN  /\ c.idToken = None <=> c.expiresAt = None
        /\ c.idToken # None /\ c.expiresAt # None =>
               /\ held.src # "partial"
               /\ Val(c.expiresAt)
                      = held.at + (IF held.ttl = None THEN DEFAULT_EXPIRES_IN
                                   ELSE Val(held.ttl)) - SAFETY_MARGIN


\* C23: a successful refresh leaves refreshToken as it is, and a step that
\* changes refreshToken is the completion of a successful login, so that
\* the stored refreshToken is always that of the latest successful login.
C23_RefreshTokenFrame ==
    [][/\ (\E tk \in BagToSet(tasks), r \in AuthResponses :
              RefreshResponse(tk, r) /\ RefreshSucceeds(r))
          => flight_token_cache'.refreshToken = flight_token_cache.refreshToken
       /\ flight_token_cache'.refreshToken # flight_token_cache.refreshToken
          => \E tk \in BagToSet(tasks), r \in AuthResponses :
                 LoginResponse(tk, r) /\ LoginSucceeds(r)]_vars


\* ===================================================================
\* Properties of the ancestor walk
\* ===================================================================

\* the ancestors of a row, nearest first, never hold a row twice, and each
\* is the parent of the one before
NoRepeat(hierarchy) ==
    \A i, j \in 1..Len(hierarchy) : i # j => hierarchy[i] # hierarchy[j]

IsAncestry(table, location_id, hierarchy) ==
    /\ NoRepeat(hierarchy)
    /\ \A i \in 1..Len(hierarchy) :
           hierarchy[i] = table[IF i = 1 THEN location_id ELSE hierarchy[i - 1]]

\* C24: the ancestor walk of get_location_by_id ends whatever the table
\* holds: it never looks up more ancestors than the table has rows (a walk
\* that does has entered a cycle of parent links and repeats it for ever),
\* and the hierarchy it builds and returns lists the ancestors nearest
\* first, no row twice.
C24_WalkTerminates ==
    /\ \A tk \in BagToSet(tasks) :
           tk.op = "get_location_by_id" =>
               /\ Len(tk.hierarchy) <= Cardinality(DOMAIN tk.table)
               /\ IsAncestry(tk.table, tk.location, tk.hierarchy)
    /\ last.op = "get_location_by_id" /\ last.content.status = "success" =>
           NoRepeat(last.content.hierarchy)

====
